---- MODULE Spec2Model ----
(***************************************************************************)
(* Two Express applications that gate demo endpoints behind bearer tokens: *)
(*   - the Keycloak variant, src/api-parcial-auth0/Api.js                  *)
(*     (verificarToken + requiereRol, jsonwebtoken + jwks-rsa);            *)
(*   - the Auth0 variant, src/unnamed/part_000                             *)
(*     (checkJwt + requiredScopes from express-oauth2-jwt-bearer).         *)
(* One behaviour of the model is the life of one request through the       *)
(* middleware stack of one of the two applications.  Requests are          *)
(* independent of each other in both applications (no application state    *)
(* is written by any handler), so one request per behaviour loses nothing. *)
(***************************************************************************)
EXTENDS Integers, Sequences, FiniteSets, TLC

VARIABLES
    variant,     \* which application serves the request
    req,         \* the incoming request (immutable part)
    user,        \* req.user (Keycloak) / req.auth.payload (Auth0); << >> = unset
    stack,       \* the middleware still ahead of the request, head = current
    pending,     \* asynchronous operation in flight inside the current middleware
    err,         \* the error handed to next(err) or thrown; << >> = none
    responses,   \* the responses written to res, in order
    log,         \* per finished middleware: its arguments, whether it wrote a
                 \* response, and how it left (next / end / error)
    keyFetches   \* how many times the signing-key source was asked for a key

vars == <<variant, req, user, stack, pending, err, responses, log, keyFetches>>

----------------------------------------------------------------------------
(* Bounds of the model *)

\* the server clock (Date.now()/1000) at the moment the token is verified
Now == 2

\* longest role list a namespace carries, and longest list passed to requiereRol
MaxRoles == 2

----------------------------------------------------------------------------
(* Configuration *)

KEYCLOAK_ISSUER == "http://localhost:8080/realms/parcial-oauth"

AUTH0_ISSUER == "https://dev-uilvef2fvivglwd5.us.auth0.com/"

AUTH0_AUDIENCE == "https://api-parcial.com"

Variants == {"keycloak", "auth0"}

----------------------------------------------------------------------------
(* Optional values: << >> is undefined, <<x>> is the value x *)

None == << >>

Some(x) == <<x>>

IsSome(o) == Len(o) > 0

----------------------------------------------------------------------------
(* Tokens.  A bearer token is kept as what the verifiers look at: whether  *)
(* it decodes as a JWT, the alg of its header, whether its signature       *)
(* verifies under the published RSA key, and its payload.                  *)

Algs == {"RS256", "HS256", "none"}

Issuers == {KEYCLOAK_ISSUER, AUTH0_ISSUER}

Audiences == {AUTH0_AUDIENCE, "account"}

\* exp claim: absent, already reached, still ahead
Expiries == {None, Some(Now), Some(Now + 1)}

\* the grants a token carries: resource_access (Keycloak) and scope (Auth0).
\* The scope claim is a space-delimited string, kept as the sequence of its
\* pieces with the " " separators in place.
Grants ==
    { [resource_access |-> None, scope |-> None],
      [resource_access |-> Some([microserviciocliente |-> [roles |-> Some(<<"service-read">>)]]),
       scope |-> Some(<<"service:read">>)],
      [resource_access |-> Some([frontendapp |-> [roles |-> Some(<<"service-write", "service-read">>)],
                                 microserviciocliente |-> [roles |-> None]]),
       scope |-> Some(<<"service:write", " ", "service:read">>)] }

Claims ==
    { [iss |-> i, aud |-> a, exp |-> e, resource_access |-> g.resource_access, scope |-> g.scope] :
        i \in Issuers, a \in Audiences, e \in Expiries, g \in Grants }

MalformedToken ==
    [wellFormed |-> FALSE, alg |-> "none", sig |-> FALSE,
     claims |-> [iss |-> KEYCLOAK_ISSUER, aud |-> "account", exp |-> None,
                 resource_access |-> None, scope |-> None]]

Tokens ==
    { [wellFormed |-> TRUE, alg |-> al, sig |-> sg, claims |-> c] :
        al \in Algs, sg \in BOOLEAN, c \in Claims } \cup {MalformedToken}

----------------------------------------------------------------------------
(* Requests *)

Methods == {"GET", "POST"}

Paths == {"/health", "/api/servicios/productos", "/api/token-info", "/nope"}

\* the Authorization header: absent, another scheme, or a bearer credential
\* written with either capitalisation of the scheme
AuthorizationKinds == {"absent", "Basic", "bearer", "Bearer"}

\* a request body: GET carries none; a POST body is JSON that parses or not
Bodies(method) == IF method = "GET" THEN {"none"} ELSE {"json", "malformed"}

\* how a request presents its credential: the Authorization header, the
\* access_token query parameter, both or neither; token is the credential
Presentations ==
    { hq \in AuthorizationKinds \X BOOLEAN : hq[1] \in {"bearer", "Bearer"} \/ hq[2] }

Credentials ==
    { [authorization |-> h, access_token |-> FALSE, token |-> None] : h \in {"absent", "Basic"} }
    \cup
    { [authorization |-> hq[1], access_token |-> hq[2], token |-> Some(t)] :
        hq \in Presentations, t \in Tokens }

RequestsOf(m) ==
    { [method |-> m, path |-> p, body |-> b, authorization |-> c.authorization,
       access_token |-> c.access_token, token |-> c.token] :
        p \in Paths, b \in Bodies(m), c \in Credentials }

Requests == UNION { RequestsOf(m) : m \in Methods }

----------------------------------------------------------------------------
(* The middleware stacks the two applications register *)

Mw(name, arg) == [mw |-> name, arg |-> arg]

Route(method, path, chain) == [method |-> method, path |-> path, chain |-> chain]

ItemPaths == {"/api/servicios/productos/7"}

PathMatches(pattern, path) ==
    \/ pattern = path
    \/ pattern = "/api/servicios/productos/:id" /\ path \in ItemPaths

KeycloakRoutes ==
    { Route("GET", "/health", <<Mw("handler", <<"health">>)>>),
      Route("GET", "/api/servicios/productos",
            <<Mw("verificarToken", << >>), Mw("requiereRol", <<"service-read">>),
              Mw("handler", <<"productos">>)>>),
      Route("POST", "/api/servicios/productos",
            <<Mw("verificarToken", << >>), Mw("requiereRol", <<"service-write">>),
              Mw("handler", <<"crearProducto">>)>>),
      Route("GET", "/api/usuarios/perfil",
            <<Mw("verificarToken", << >>), Mw("requiereRol", <<"user-read">>),
              Mw("handler", <<"perfil">>)>>),
      Route("PUT", "/api/usuarios/perfil",
            <<Mw("verificarToken", << >>), Mw("requiereRol", <<"user-write">>),
              Mw("handler", <<"actualizarPerfil">>)>>),
      Route("GET", "/api/token-info",
            <<Mw("verificarToken", << >>), Mw("handler", <<"token-info">>)>>) }

Auth0Routes ==
    { Route("GET", "/health", <<Mw("handler", <<"health">>)>>),
      Route("GET", "/api/servicios/productos",
            <<Mw("checkJwt", << >>), Mw("requiredScopes", <<"service:read">>),
              Mw("handler", <<"productos">>)>>),
      Route("POST", "/api/servicios/productos",
            <<Mw("checkJwt", << >>), Mw("requiredScopes", <<"service:write">>),
              Mw("handler", <<"crearProducto">>)>>),
      Route("PUT", "/api/servicios/productos/:id",
            <<Mw("checkJwt", << >>), Mw("requiredScopes", <<"service:write">>),
              Mw("handler", <<"actualizarProducto">>)>>),
      Route("GET", "/api/usuarios/perfil",
            <<Mw("checkJwt", << >>), Mw("requiredScopes", <<"user:read">>),
              Mw("handler", <<"perfil">>)>>),
      Route("PUT", "/api/usuarios/perfil",
            <<Mw("checkJwt", << >>), Mw("requiredScopes", <<"user:write">>),
              Mw("handler", <<"actualizarPerfil">>)>>),
      Route("GET", "/api/usuarios/historial",
            <<Mw("checkJwt", << >>), Mw("requiredScopes", <<"user:read">>),
              Mw("handler", <<"historial">>)>>),
      Route("GET", "/api/token-info",
            <<Mw("checkJwt", << >>), Mw("handler", <<"token-info">>)>>) }

Routes(v) == IF v = "keycloak" THEN KeycloakRoutes ELSE Auth0Routes

Matching(v, r) ==
    { rt \in Routes(v) : rt.method = r.method /\ PathMatches(rt.path, r.path) }

\* what a request that matches no route falls through to: the Auth0
\* application ends with its own 404 middleware, the Keycloak application
\* registers none and Express answers itself
Fallthrough(v) ==
    IF v = "keycloak" THEN <<Mw("finalhandler", << >>)>> ELSE <<Mw("notFound", << >>)>>

\* the stack a request runs through: app.use(express.json()), then the chain
\* of the route it matches, else the fall-through
AppStack(v, r) ==
    <<Mw("express.json", << >>)>> \o
    ( IF Matching(v, r) = {} THEN Fallthrough(v)
      ELSE (CHOOSE rt \in Matching(v, r) : TRUE).chain )

\* the error-handling middleware of the application (4 arguments)
ErrorStack(v) == <<Mw("errorMw", << >>)>>

IsProtected(v, r) ==
    \E rt \in Matching(v, r) : rt.chain[1].mw \in {"verificarToken", "checkJwt"}

Requirement(v, r) ==
    IF \E rt \in Matching(v, r) : Len(rt.chain) = 3
    THEN (CHOOSE rt \in Matching(v, r) : TRUE).chain[2].arg
    ELSE << >>

----------------------------------------------------------------------------
(* Responses and errors *)

\* a JSON body is a function from property names to values; JSON.stringify
\* leaves out a property whose value is undefined
Prop(name, opt) == IF IsSome(opt) THEN name :> opt[1] ELSE [x \in {} |-> x]

\* reading a property an object may not have
Get(obj, name) == IF name \in DOMAIN obj THEN Some(obj[name]) ELSE None

Json(status, body) == [status |-> status, json |-> TRUE, body |-> body]

\* what a middleware did when it finished: the response it wrote (if any),
\* the claims it attached to the request (if any), and whether it called
\* next(), ended the chain, or passed / threw an error
Responds(resp) == [respond |-> Some(resp), attach |-> None, go |-> "end", error |-> None]

CallsNext == [respond |-> None, attach |-> None, go |-> "next", error |-> None]

AttachesAndCallsNext(claims) ==
    [respond |-> None, attach |-> Some(claims), go |-> "next", error |-> None]

Fails(e) == [respond |-> None, attach |-> None, go |-> "error", error |-> Some(e)]

----------------------------------------------------------------------------
(* Keycloak variant: verificarToken, getKey, requiereRol *)

\* the options object handed to jwt.verify
KeycloakVerifyOptions ==
    [algorithms |-> {"RS256"}, issuer |-> Some(KEYCLOAK_ISSUER), audience |-> None]

\* the header test without its startsWith('Bearer ') half
HeaderRejectedNoScheme(authorization) == authorization = "absent"

\* !authHeader || !authHeader.startsWith('Bearer ')
HeaderRejected(authorization) == authorization # "Bearer"

\* authHeader.split(' ')[1]: the word after the scheme
HeaderToken(r) ==
    IF r.authorization \in {"bearer", "Bearer"} THEN r.token[1] ELSE MalformedToken

\* jsonwebtoken's verify once the key callback has delivered the key: the
\* checks it runs, in its order, under the given options; the message of
\* the first one that fails
JwtVerifyError(tok, options) ==
    IF tok.alg \notin options.algorithms THEN Some("invalid algorithm")
    ELSE IF ~tok.sig THEN Some("invalid signature")
    ELSE IF IsSome(tok.claims.exp) /\ Now >= tok.claims.exp[1] THEN Some("jwt expired")
    ELSE IF IsSome(options.audience) /\ tok.claims.aud # options.audience[1]
         THEN Some("jwt audience invalid")
    ELSE IF IsSome(options.issuer) /\ tok.claims.iss # options.issuer[1]
         THEN Some("jwt issuer invalid")
    ELSE None

InvalidTokenResponse(message) ==
    Json(403, [error |-> "Token invalido o expirado", detalle |-> message])

\* the callback with the return of its error branch left out: it answers
\* 403 and goes on to attach the claims and call next()
VerifyCallbackNoReturn(error, decoded) ==
    IF IsSome(error)
    THEN [respond |-> Some(InvalidTokenResponse(error[1])), attach |-> Some(decoded),
          go |-> "next", error |-> None]
    ELSE AttachesAndCallsNext(decoded)

\* the callback handed to jwt.verify
VerifyCallback(error, decoded) ==
    IF IsSome(error) THEN Responds(InvalidTokenResponse(error[1]))
    ELSE AttachesAndCallsNext(decoded)

\* verificarToken up to the point where it either answers or has to wait
\* for the signing key: << >> means jwt.verify has called getKey
VerificarTokenSync(r) ==
    IF HeaderRejected(r.authorization)
    THEN Some(Responds(Json(401, [error |-> "Token no proporcionado",
                                  mensaje |-> "Debe incluir: Authorization: Bearer <token>"])))
    ELSE IF ~HeaderToken(r).wellFormed
         THEN Some(VerifyCallback(Some("jwt malformed"), HeaderToken(r).claims))
         ELSE None

\* getKey's callback fires: jwt.verify finishes and calls its callback
VerificarTokenAsync(r, keyOk) ==
    IF ~keyOk
    THEN VerifyCallback(Some("error in secret or public key callback"), HeaderToken(r).claims)
    ELSE VerifyCallback(JwtVerifyError(HeaderToken(r), KeycloakVerifyOptions),
                        HeaderToken(r).claims)

\* resourceAccess[ns]?.roles || []
NamespaceRoles(resourceAccess, ns) ==
    IF ns \in DOMAIN resourceAccess /\ IsSome(resourceAccess[ns].roles)
    THEN resourceAccess[ns].roles[1]
    ELSE << >>

\* the role list without the frontendapp namespace
TodosLosRolesMicroOnly(u) ==
    LET resourceAccess == IF IsSome(u.resource_access) THEN u.resource_access[1]
                          ELSE [x \in {} |-> x]
    IN  NamespaceRoles(resourceAccess, "microserviciocliente")

\* [...microRoles, ...frontendRoles]
TodosLosRoles(u) ==
    LET resourceAccess == IF IsSome(u.resource_access) THEN u.resource_access[1]
                          ELSE [x \in {} |-> x]
    IN  NamespaceRoles(resourceAccess, "microserviciocliente")
        \o NamespaceRoles(resourceAccess, "frontendapp")

\* list.includes(x)
Includes(list, x) == \E i \in 1..Len(list) : list[i] = x

\* rolesRequeridos.some(rol => todosLosRoles.includes(rol))
TienePermiso(rolesRequeridos, u) ==
    \E i \in 1..Len(rolesRequeridos) : Includes(TodosLosRoles(u), rolesRequeridos[i])

\* requiereRol with the return of its refusal left out: it answers 403 and
\* calls next() all the same
RequiereRolNoReturn(rolesRequeridos, u) ==
    IF ~TienePermiso(rolesRequeridos, u)
    THEN [respond |-> Some(Json(403, [error |-> "Permisos insuficientes",
                                      rolesRequeridos |-> rolesRequeridos,
                                      rolesActuales |-> TodosLosRoles(u)])),
          attach |-> None, go |-> "next", error |-> None]
    ELSE CallsNext

\* the middleware requiereRol(...rolesRequeridos) returns
RequiereRol(rolesRequeridos, u) ==
    IF ~TienePermiso(rolesRequeridos, u)
    THEN Responds(Json(403, [error |-> "Permisos insuficientes",
                             rolesRequeridos |-> rolesRequeridos,
                             rolesActuales |-> TodosLosRoles(u)]))
    ELSE CallsNext

\* the last app.use: (err, req, res, next) => res.status(500)...
KeycloakErrorMw(e) ==
    Responds(Json(500, [error |-> "Error interno", detalle |-> e.message]))

\* no middleware is registered for unmatched requests: Express's own final
\* handler answers 404 with an HTML page "Cannot <METHOD> <path>"
FinalHandler(r) ==
    Responds([status |-> 404, json |-> FALSE,
              body |-> [html |-> <<"Cannot", r.method, r.path>>]])

----------------------------------------------------------------------------
(* Auth0 variant: checkJwt = auth({...}), requiredScopes, error middleware *)

Error(name, message, code) == [name |-> name, message |-> message, code |-> code]

\* the options handed to auth()
Auth0Options ==
    [audience |-> AUTH0_AUDIENCE, issuerBaseURL |-> AUTH0_ISSUER, tokenSigningAlg |-> "RS256"]

\* the error classes of express-oauth2-jwt-bearer; each sets
\* name = constructor.name
UnauthorizedError == Error("UnauthorizedError", "Unauthorized", None)

InvalidRequestError ==
    Error("InvalidRequestError", "More than one method used for authentication",
          Some("invalid_request"))

InvalidTokenError(message) == Error("InvalidTokenError", message, Some("invalid_token"))

InsufficientScopeError(message) ==
    Error("InsufficientScopeError", message, Some("insufficient_scope"))

\* the library takes the bearer token from the Authorization header
\* (scheme matched without regard to case) or the access_token parameter
FromHeader(r) == r.authorization \in {"bearer", "Bearer"}

FromQuery(r) == r.access_token

\* the first validation of the library that fails on a token whose key has
\* been resolved: signature and exp, then alg, iss, aud
Auth0VerifyError(tok, options) ==
    IF ~tok.sig \/ tok.alg = "none" THEN Some("signature verification failed")
    ELSE IF IsSome(tok.claims.exp) /\ tok.claims.exp[1] <= Now
         THEN Some("\"exp\" claim timestamp check failed")
    ELSE IF tok.alg # options.tokenSigningAlg THEN Some("Unexpected 'alg' value")
    ELSE IF tok.claims.iss # options.issuerBaseURL THEN Some("Unexpected 'iss' value")
    ELSE IF tok.claims.aud # options.audience THEN Some("Unexpected 'aud' value")
    ELSE IF ~IsSome(tok.claims.exp) THEN Some("Unexpected 'exp' value")
    ELSE None

\* checkJwt up to the point where it either fails or asks for the signing
\* key: << >> means the key set is being consulted
CheckJwtSync(r) ==
    IF ~FromHeader(r) /\ ~FromQuery(r) THEN Some(Fails(UnauthorizedError))
    ELSE IF FromHeader(r) /\ FromQuery(r) THEN Some(Fails(InvalidRequestError))
    ELSE IF ~r.token[1].wellFormed THEN Some(Fails(InvalidTokenError("Invalid Compact JWS")))
    ELSE None

\* the key set answered (or not): verification finishes, req.auth is set
CheckJwtAsync(r, keyOk) ==
    IF ~keyOk THEN Fails(InvalidTokenError("Failed to fetch authorization server metadata"))
    ELSE IF IsSome(Auth0VerifyError(r.token[1], Auth0Options))
         THEN Fails(InvalidTokenError(Auth0VerifyError(r.token[1], Auth0Options)[1]))
         ELSE AttachesAndCallsNext(r.token[1].claims)

\* scope.split(' ')
Split(scope) == SelectSeq(scope, LAMBDA piece : piece # " ")

\* requiredScopes(...scopes): every required scope must be in the token's
RequiredScopes(scopes, u) ==
    IF ~IsSome(u.scope) THEN Fails(InsufficientScopeError("Missing 'scope' claim in the payload"))
    ELSE IF \A i \in 1..Len(scopes) : Includes(Split(u.scope[1]), scopes[i])
         THEN CallsNext
         ELSE Fails(InsufficientScopeError("Insufficient Scope"))

\* app.use((err, req, res, next) => ...) of the Auth0 application
Auth0ErrorMw(e) ==
    IF e.name = "UnauthorizedError"
    THEN Responds(Json(401,
            [error |-> "Token no proporcionado o invalido",
             mensaje |-> e.message,
             detalles |-> "Debe incluir header: Authorization: Bearer <tu_token>"]
            @@ Prop("codigo", e.code)))
    ELSE IF e.name = "InsufficientScopeError"
    THEN Responds(Json(403,
            [error |-> "Permisos insuficientes",
             mensaje |-> "El token no tiene los scopes necesarios"]
            @@ Prop("scopes_requeridos", Get(e, "expected"))
            @@ Prop("scopes_actuales", Get(e, "actual"))))
    ELSE Responds(Json(500, [error |-> "Error interno del servidor", mensaje |-> e.message]))

\* app.use((req, res) => res.status(404)...) of the Auth0 application
NotFound(r) ==
    Responds(Json(404, [error |-> "Endpoint no encontrado",
                        ruta_solicitada |-> r.path, metodo |-> r.method]))

----------------------------------------------------------------------------
(* Shared by both applications *)

\* app.use(express.json()): a body that does not parse is passed on as an error
ExpressJson(r) ==
    IF r.body = "malformed"
    THEN Fails(Error("SyntaxError", "Unexpected token } in JSON at position 1", None))
    ELSE CallsNext

\* the route handlers: each reads the claims off the request and answers 200.
\* The Keycloak token-info handler formats exp as a date, which throws on a
\* token without exp; every protected handler throws on a request without claims.
Handler(v, id, u) ==
    IF id = "health"
    THEN Responds(Json(200, [status |-> "OK", mensaje |-> "API funcionando"]))
    ELSE IF ~IsSome(u)
    THEN Fails(Error("TypeError", "Cannot read properties of undefined", None))
    ELSE IF v = "keycloak" /\ id = "token-info" /\ ~IsSome(u[1].exp)
    THEN Fails(Error("RangeError", "Invalid time value", None))
    ELSE IF v = "keycloak"
    THEN Responds(Json(200, [mensaje |-> id] @@ Prop("roles", u[1].resource_access)))
    ELSE Responds(Json(200, [mensaje |-> id] @@ Prop("scopes", u[1].scope)))

----------------------------------------------------------------------------
(* The request life cycle *)

Init ==
    /\ variant \in Variants
    /\ req \in Requests
    /\ user = None
    /\ stack = AppStack(variant, req)
    /\ pending = "none"
    /\ err = None
    /\ responses = << >>
    /\ log = << >>
    /\ keyFetches = 0

Current(name) == Len(stack) > 0 /\ stack[1].mw = name /\ pending = "none"

\* Express after a middleware returns: the response it wrote is on the wire,
\* next() moves on to the rest of the chain, next(err) or a throw moves to the
\* error-handling middleware, and without either the request is over
Finish(who, o) ==
    /\ responses' = IF IsSome(o.respond) THEN Append(responses, o.respond[1]) ELSE responses
    /\ user' = IF IsSome(o.attach) THEN o.attach ELSE user
    /\ err' = IF o.go = "error" THEN o.error ELSE err
    /\ stack' = IF o.go = "next" THEN Tail(stack)
                ELSE IF o.go = "error" THEN ErrorStack(variant)
                ELSE << >>
    /\ log' = Append(log, [who |-> who, arg |-> stack[1].arg,
                            responded |-> IsSome(o.respond), go |-> o.go])
    /\ pending' = "none"
    /\ UNCHANGED <<variant, req>>

\* the resolver of signing keys is asked for the key of the token
AwaitKey(what) ==
    /\ pending' = what
    /\ keyFetches' = keyFetches + 1
    /\ UNCHANGED <<variant, req, user, stack, err, responses, log>>

ExpressJsonStep ==
    /\ Current("express.json")
    /\ Finish("express.json", ExpressJson(req))
    /\ UNCHANGED keyFetches

VerificarTokenStep ==
    /\ Current("verificarToken")
    /\ IF IsSome(VerificarTokenSync(req))
       THEN Finish("verificarToken", VerificarTokenSync(req)[1]) /\ UNCHANGED keyFetches
       ELSE AwaitKey("getSigningKey")

GetSigningKeyCallback ==
    /\ pending = "getSigningKey"
    /\ \E keyOk \in BOOLEAN : Finish("verificarToken", VerificarTokenAsync(req, keyOk))
    /\ UNCHANGED keyFetches

RequiereRolStep ==
    /\ Current("requiereRol")
    /\ IF IsSome(user)
       THEN Finish("requiereRol", RequiereRol(stack[1].arg, user[1]))
       ELSE Finish("requiereRol",
                   Fails(Error("TypeError", "Cannot read properties of undefined", None)))
    /\ UNCHANGED keyFetches

CheckJwtStep ==
    /\ Current("checkJwt")
    /\ IF IsSome(CheckJwtSync(req))
       THEN Finish("checkJwt", CheckJwtSync(req)[1]) /\ UNCHANGED keyFetches
       ELSE AwaitKey("jwtVerify")

JwtVerifyCallback ==
    /\ pending = "jwtVerify"
    /\ \E keyOk \in BOOLEAN : Finish("checkJwt", CheckJwtAsync(req, keyOk))
    /\ UNCHANGED keyFetches

RequiredScopesStep ==
    /\ Current("requiredScopes")
    /\ IF IsSome(user)
       THEN Finish("requiredScopes", RequiredScopes(stack[1].arg, user[1]))
       ELSE Finish("requiredScopes", Fails(UnauthorizedError))
    /\ UNCHANGED keyFetches

HandlerStep ==
    /\ Current("handler")
    /\ Finish("handler", Handler(variant, stack[1].arg[1], user))
    /\ UNCHANGED keyFetches

ErrorMwStep ==
    /\ Current("errorMw")
    /\ IF variant = "keycloak"
       THEN Finish("errorMw", KeycloakErrorMw(err[1]))
       ELSE Finish("errorMw", Auth0ErrorMw(err[1]))
    /\ UNCHANGED keyFetches

NotFoundStep ==
    /\ Current("notFound")
    /\ Finish("notFound", NotFound(req))
    /\ UNCHANGED keyFetches

FinalHandlerStep ==
    /\ Current("finalhandler")
    /\ Finish("finalhandler", FinalHandler(req))
    /\ UNCHANGED keyFetches

Next ==
    \/ ExpressJsonStep
    \/ VerificarTokenStep
    \/ GetSigningKeyCallback
    \/ RequiereRolStep
    \/ CheckJwtStep
    \/ JwtVerifyCallback
    \/ RequiredScopesStep
    \/ HandlerStep
    \/ ErrorMwStep
    \/ NotFoundStep
    \/ FinalHandlerStep

Spec == Init /\ [][Next]_vars

----------------------------------------------------------------------------
(* requiereRol on its own: any list of required roles against any          *)
(* resource_access a verified token can carry                              *)

RoleNames == {"service-read", "user-read"}

RoleLists == UNION { [1..n -> RoleNames] : n \in 0..MaxRoles }

\* a namespace of resource_access: missing, without roles, or with a list
NamespaceEntries(lists) ==
    {None} \cup {Some([roles |-> None])} \cup { Some([roles |-> Some(l)]) : l \in lists }

ResourceAccesses ==
    {None} \cup
    { Some(Prop("microserviciocliente", m) @@ Prop("frontendapp", f) @@ Prop("account", a)) :
        m \in NamespaceEntries(RoleLists), f \in NamespaceEntries(RoleLists),
        a \in {None, Some([roles |-> Some(<<"service-read">>)])} }

InitRol ==
    /\ variant = "keycloak"
    /\ \E ra \in ResourceAccesses :
         /\ user = Some([iss |-> KEYCLOAK_ISSUER, aud |-> "account", exp |-> Some(Now + 1),
                         resource_access |-> ra, scope |-> None])
         /\ req = [method |-> "GET", path |-> "/api/servicios/productos", body |-> "none",
                   authorization |-> "Bearer", access_token |-> FALSE,
                   token |-> Some([wellFormed |-> TRUE, alg |-> "RS256", sig |-> TRUE,
                                   claims |-> user[1]])]
    /\ \E rolesRequeridos \in RoleLists :
         stack = <<Mw("requiereRol", rolesRequeridos), Mw("handler", <<"productos">>)>>
    /\ pending = "none"
    /\ err = None
    /\ responses = << >>
    /\ log = <<[who |-> "express.json", arg |-> << >>, responded |-> FALSE, go |-> "next"],
               [who |-> "verificarToken", arg |-> << >>, responded |-> FALSE, go |-> "next"]>>
    /\ keyFetches = 1

NextRol == RequiereRolStep \/ HandlerStep

SpecRol == InitRol /\ [][NextRol]_vars

----------------------------------------------------------------------------
(* Vocabulary of the properties *)

Verifiers == {"verificarToken", "checkJwt"}

Predicates == {"requiereRol", "requiredScopes"}

Entries(names) == { i \in 1..Len(log) : log[i].who \in names }

Finished == stack = << >> /\ pending = "none"

Range(list) == { list[i] : i \in 1..Len(list) }

\* a middleware refused the request: it answered itself or passed an error on
Refused(i) == log[i].responded \/ log[i].go = "error"

\* the roles a claim set grants under the two namespaces the API consults
GrantedRoles(u) ==
    UNION { IF IsSome(u.resource_access)
               /\ ns \in DOMAIN u.resource_access[1]
               /\ IsSome(u.resource_access[1][ns].roles)
            THEN Range(u.resource_access[1][ns].roles[1])
            ELSE {} : ns \in {"microserviciocliente", "frontendapp"} }

ConfiguredIssuer(v) ==
    IF v = "keycloak" THEN KeycloakVerifyOptions.issuer ELSE Some(Auth0Options.issuerBaseURL)

ConfiguredAudience(v) ==
    IF v = "keycloak" THEN KeycloakVerifyOptions.audience ELSE Some(Auth0Options.audience)

----------------------------------------------------------------------------
\* C1: on a protected route the handler runs only after the verifier has let
\* the request through and, where the route declares a requirement, after the
\* predicate has let it through; once a verifier or predicate has refused a
\* request the handler is not in the request's history and the answer is an error.
C1_HandlerOnlyAfterAuth ==
    IsProtected(variant, req) =>
        /\ \A h \in Entries({"handler"}) :
             /\ \E j \in Entries(Verifiers) : j < h /\ log[j].go = "next" /\ ~log[j].responded
             /\ Requirement(variant, req) # << >> =>
                  \E k \in Entries(Predicates) :
                      k < h /\ log[k].go = "next" /\ ~log[k].responded
        /\ (\E j \in Entries(Verifiers \cup Predicates) : Refused(j)) =>
             /\ Entries({"handler"}) = {}
             /\ \A i \in 1..Len(responses) : responses[i].status >= 400
             /\ Finished => Len(responses) = 1

\* a handler ran on a route with a requirement; and a refused request is over
C1_Witness ==
    /\ IsProtected(variant, req)
    /\ Requirement(variant, req) # << >>
    /\ Entries({"handler"}) # {}
    /\ Len(responses) = 1 /\ responses[1].status = 200

----------------------------------------------------------------------------
\* C2: a request carries claims only if the token's signature verified and
\* its issuer, audience and expiry were each checked and passed: the issuer
\* equals the configured issuer, the audience is the configured audience, and
\* exp is present and in the future.
C2_ClaimsOnlyAfterValidation ==
    IsSome(user) =>
        /\ req.token[1].sig
        /\ IsSome(ConfiguredIssuer(variant))
        /\ req.token[1].claims.iss = ConfiguredIssuer(variant)[1]
        /\ IsSome(ConfiguredAudience(variant))
        /\ req.token[1].claims.aud = ConfiguredAudience(variant)[1]
        /\ IsSome(req.token[1].claims.exp)
        /\ req.token[1].claims.exp[1] > Now

----------------------------------------------------------------------------
\* C3: for a token whose header declares an algorithm other than RS256 the
\* key resolver is never invoked.
C3_NoKeyFetchForOtherAlg ==
    (IsSome(req.token) /\ req.token[1].wellFormed /\ req.token[1].alg # "RS256")
        => keyFetches = 0

----------------------------------------------------------------------------
MissingTokenResponse(resp) ==
    /\ resp.status = 401
    /\ resp.json
    /\ resp.body.error \in {"Token no proporcionado", "Token no proporcionado o invalido"}

NoTokenPresented ==
    IF variant = "keycloak" THEN req.authorization # "Bearer"
    ELSE req.authorization \notin {"bearer", "Bearer"} /\ ~req.access_token

----------------------------------------------------------------------------
\* C5: every refusal by a verifier is answered 401, and 403 is answered only
\* when a predicate refused the request.
C5_VerificationFailuresAre401 ==
    /\ (Finished /\ \E j \in Entries(Verifiers) : Refused(j)) =>
          \A i \in 1..Len(responses) : responses[i].status = 401
    /\ \A i \in 1..Len(responses) :
          responses[i].status = 403 => \E k \in Entries(Predicates) : Refused(k)

----------------------------------------------------------------------------
\* C6: requiereRol(R) lets a request through exactly when R meets the union
\* of the roles granted under microserviciocliente and frontendapp, a missing
\* resource_access, namespace or roles list granting nothing; otherwise it
\* answers itself.
C6_RoleStrategy ==
    \A k \in Entries({"requiereRol"}) :
        /\ log[k].go = "next" <=> Range(log[k].arg) \cap GrantedRoles(user[1]) # {}
        /\ log[k].go # "next" => log[k].responded /\ log[k].go = "end"

\* admitted on the second of two required roles, granted under frontendapp only
C6_Witness ==
    \E k \in Entries({"requiereRol"}) :
        /\ log[k].go = "next"
        /\ Len(log[k].arg) = 2
        /\ log[k].arg[1] \notin GrantedRoles(user[1])
        /\ log[k].arg[2] \in GrantedRoles(user[1])
        /\ "microserviciocliente" \notin DOMAIN user[1].resource_access[1]
        /\ "frontendapp" \in DOMAIN user[1].resource_access[1]

----------------------------------------------------------------------------
\* C7: when a predicate refuses a request the answer is 403 and its body
\* carries the whole list of required roles/scopes and all the roles/scopes
\* the token has.
C7_DenialCarriesBothSets ==
    \A k \in Entries(Predicates) :
        (Refused(k) /\ Finished) =>
            /\ Len(responses) = 1
            /\ responses[1].status = 403
            /\ IF variant = "keycloak"
               THEN /\ "rolesRequeridos" \in DOMAIN responses[1].body
                    /\ responses[1].body.rolesRequeridos = log[k].arg
                    /\ "rolesActuales" \in DOMAIN responses[1].body
                    /\ Range(responses[1].body.rolesActuales) = GrantedRoles(user[1])
               ELSE /\ "scopes_requeridos" \in DOMAIN responses[1].body
                    /\ Range(responses[1].body.scopes_requeridos) = Range(log[k].arg)
                    /\ "scopes_actuales" \in DOMAIN responses[1].body
                    /\ Range(responses[1].body.scopes_actuales) =
                         (IF IsSome(user[1].scope) THEN Range(Split(user[1].scope[1])) ELSE {})

----------------------------------------------------------------------------
BodyCarries(body, text) ==
    \E f \in {"detalle", "mensaje"} : f \in DOMAIN body /\ body[f] = text

\* C8: an error raised outside the verifiers and predicates is answered 500
\* with a body that does not carry the error's own message.
C8_InternalErrorsAreGeneric ==
    (Finished /\ \E i \in Entries({"express.json", "handler"}) : log[i].go = "error") =>
        /\ Len(responses) = 1
        /\ responses[1].status = 500
        /\ ~BodyCarries(responses[1].body, err[1].message)

----------------------------------------------------------------------------
\* C9: a request that matches no route (and whose body parses) is answered
\* 404 with a JSON body holding the requested path and method, in either
\* application, without any token verification.
C9_UnknownRoute404 ==
    (Matching(variant, req) = {} /\ req.body # "malformed" /\ Finished) =>
        /\ Len(responses) = 1
        /\ responses[1].status = 404
        /\ responses[1].json
        /\ responses[1].body.ruta_solicitada = req.path
        /\ responses[1].body.metodo = req.method
        /\ Entries(Verifiers) = {} /\ keyFetches = 0

----------------------------------------------------------------------------
\* every finished run of one of the named middleware did exactly one of
\* answering and calling next(), and none ran twice
OneOutcomeEach(names) ==
    /\ \A i \in Entries(names) :
          \/ log[i].responded /\ log[i].go = "end"
          \/ ~log[i].responded /\ log[i].go = "next"
    /\ \A i, j \in Entries(names) : log[i].who = log[j].who => i = j

\* C10: in the Keycloak application verificarToken and requiereRol each do
\* exactly one of sending an error response and calling next(), once; a
\* request gets at most one response; and requiereRol leaves req.user as it is.
C10_OneOutcomePerMiddleware ==
    /\ [](variant = "keycloak" =>
            /\ OneOutcomeEach({"verificarToken", "requiereRol"})
            /\ Len(responses) <= 1
            /\ (Entries({"requiereRol"}) # {} \/ Current("requiereRol"))
                  => Cardinality(Entries({"verificarToken"})) = 1)
    /\ [][(variant = "keycloak" /\ Current("requiereRol")) => user' = user]_vars

\* a request was refused by requiereRol after verificarToken let it through
C10_Witness ==
    /\ variant = "keycloak"
    /\ Finished
    /\ \E i \in Entries({"verificarToken"}) : log[i].go = "next"
    /\ \E k \in Entries({"requiereRol"}) : log[k].responded
    /\ Len(responses) = 1 /\ responses[1].status = 403
    /\ IsSome(user)

====
